---- MODULE Spec2Model ----
(***************************************************************************)
(* A model of nsightful/core.py: the conversion of Nsight Compute CSV rows *)
(* into a flat Markdown report.                                            *)
(*                                                                         *)
(* Text that the code scans, trims or reformats (kernel names, metric and  *)
(* rule fields) is a sequence of one-character strings.  Section labels    *)
(* are only looked up and tested for emptiness, so they are TLA+ strings.  *)
(***************************************************************************)
EXTENDS Integers, Sequences, FiniteSets, TLC

VARIABLES
    feed,      \* which family of input rows this conversion is fed
    rows,      \* the rows the csv reader has yielded so far
    kernels,   \* parse_ncu_csv_data's `kernels`: ordered kernel -> section map
    pc,        \* "parsing", "done" (a document was returned), "failed" (raised)
    out,       \* convert_ncu_csv_to_flat_markdown's markdown_lines
    arg,       \* the argument of the pure function under check
    ret        \* its return value

vars == <<feed, rows, kernels, pc, out, arg, ret>>

(***************************************************************************)
(* Bounds                                                                  *)
(***************************************************************************)
MaxRows == 3
MaxNameLen == 4
MaxValueLen == 7

(***************************************************************************)
(* Text helpers                                                            *)
(***************************************************************************)
Range(s) == {s[i] : i \in 1..Len(s)}

SeqsUpTo(S, n) == UNION {[1..k -> S] : k \in 0..n}

\* The characters str.strip() removes (the model's alphabets hold the space).
Whitespace == {" "}

RECURSIVE lstrip(_)
lstrip(s) ==
    IF s # <<>> /\ Head(s) \in Whitespace THEN lstrip(Tail(s)) ELSE s

RECURSIVE rstrip(_)
rstrip(s) ==
    IF s # <<>> /\ s[Len(s)] \in Whitespace
    THEN rstrip(SubSeq(s, 1, Len(s) - 1))
    ELSE s

strip(s) == rstrip(lstrip(s))

(***************************************************************************)
(* extract_kernel_name                                                     *)
(***************************************************************************)
\* The characters the regex's negated class [^[\(] excludes.
Brackets == {"[", "("}

\* Length of the longest prefix of s free of the characters in `stop`.
RECURSIVE PrefixLen(_, _)
PrefixLen(s, stop) ==
    IF s = <<>> \/ Head(s) \in stop THEN 0 ELSE 1 + PrefixLen(Tail(s), stop)

\* re.match(r"^([^[\(]+)", name): the greedy non-empty bracket-free prefix,
\* or no match (<<FALSE, <<>>>>) when the name is empty or starts with a bracket.
re_match_prefix(name) ==
    LET n == PrefixLen(name, Brackets)
    IN  IF n >= 1 THEN <<TRUE, SubSeq(name, 1, n)>> ELSE <<FALSE, <<>>>>

extract_kernel_name(full_kernel_name) ==
    LET match == re_match_prefix(full_kernel_name)
    IN  IF match[1] THEN strip(match[2]) ELSE full_kernel_name

(***************************************************************************)
(* format_numeric_value                                                    *)
(***************************************************************************)
Digits == {"0", "1", "2", "3", "4", "5", "6", "7", "8", "9"}

DigitVal(c) ==
    CASE c = "0" -> 0 [] c = "1" -> 1 [] c = "2" -> 2 [] c = "3" -> 3
      [] c = "4" -> 4 [] c = "5" -> 5 [] c = "6" -> 6 [] c = "7" -> 7
      [] c = "8" -> 8 [] c = "9" -> 9

DigitChar(d) == <<"0", "1", "2", "3", "4", "5", "6", "7", "8", "9">>[d + 1]

\* value_str.replace(",", "")
RECURSIVE remove_commas(_)
remove_commas(s) ==
    IF s = <<>> THEN <<>>
    ELSE IF Head(s) = "," THEN remove_commas(Tail(s))
    ELSE <<Head(s)>> \o remove_commas(Tail(s))

RECURSIVE DigitsToNat(_)
DigitsToNat(ds) ==
    IF ds = <<>> THEN 0
    ELSE 10 * DigitsToNat(SubSeq(ds, 1, Len(ds) - 1)) + DigitVal(ds[Len(ds)])

RECURSIVE NatToDigits(_)
NatToDigits(n) ==
    IF n < 10 THEN <<DigitChar(n)>>
    ELSE NatToDigits(n \div 10) \o <<DigitChar(n % 10)>>

\* float(clean_value) on the decimal forms [sign] digits [. [digits]] and
\* [sign] . digits; anything else raises ValueError (ok = FALSE).  The result
\* keeps the sign, the integer digits and the fraction digits of the literal.
parse_float(s) ==
    LET signed == s # <<>> /\ Head(s) \in {"-", "+"}
        body   == IF signed THEN Tail(s) ELSE s
        ni     == PrefixLen(body, {c \in Range(body) : c \notin Digits})
        ipart  == SubSeq(body, 1, ni)
        rest   == SubSeq(body, ni + 1, Len(body))
        dotted == rest # <<>> /\ Head(rest) = "."
        fpart  == IF dotted THEN Tail(rest) ELSE <<>>
        ok     == /\ rest = <<>> \/ dotted
                  /\ Range(fpart) \subseteq Digits
                  /\ Len(ipart) + Len(fpart) >= 1
    IN  [ok   |-> ok,
         neg  |-> signed /\ Head(s) = "-",
         int  |-> IF ok THEN DigitsToNat(ipart) ELSE 0,
         frac |-> IF ok THEN fpart ELSE <<>>]

\* float_val.is_integer()
is_integer(f) == \A i \in 1..Len(f.frac) : f.frac[i] = "0"

\* abs(float_val) >= 1000
abs_ge_1000(f) == f.int >= 1000

\* The "," grouping of the format mini-language: a comma before every
\* group of three digits counted from the right.
RECURSIVE group_thousands(_)
group_thousands(ds) ==
    IF Len(ds) <= 3 THEN ds
    ELSE group_thousands(SubSeq(ds, 1, Len(ds) - 3))
         \o <<",">> \o SubSeq(ds, Len(ds) - 2, Len(ds))

Sign(f) == IF f.neg THEN <<"-">> ELSE <<>>

\* f"{int(float_val):,}" for |float_val| >= 1000
format_int_grouped(f) == Sign(f) \o group_thousands(NatToDigits(f.int))

\* f"{float_val:,.2f}": the value rounded to the nearest hundredth, grouped,
\* with two decimals.  Fraction digits past the second round up when they
\* are more than half a hundredth and down when less; an exact decimal half
\* is taken to the even hundredth (CPython rounds the float's binary value,
\* which is that for halves a float holds exactly; ValueAlphabet has no
\* digit that makes a half).
format_float_grouped(f) ==
    LET padded == f.frac \o <<"0", "0", "0">>
        third  == DigitVal(padded[3])
        beyond == \E i \in 4..Len(padded) : padded[i] # "0"
        floor  == f.int * 100 + DigitsToNat(SubSeq(padded, 1, 2))
        up     == \/ third > 5
                  \/ third = 5 /\ beyond
                  \/ third = 5 /\ ~beyond /\ floor % 2 = 1
        cents  == floor + (IF up THEN 1 ELSE 0)
        c      == cents % 100
    IN  Sign(f) \o group_thousands(NatToDigits(cents \div 100))
        \o <<".", DigitChar(c \div 10), DigitChar(c % 10)>>

format_numeric_value_regroup_small(value_str) ==
    IF value_str = <<>> THEN <<>>
    ELSE IF "," \in Range(value_str) THEN
        LET clean_value == remove_commas(value_str)
            float_val   == parse_float(clean_value)
        IN  IF ~float_val.ok THEN value_str
            ELSE IF is_integer(float_val) THEN format_int_grouped(float_val)
            ELSE format_float_grouped(float_val)
    ELSE value_str

format_numeric_value(value_str) ==
    IF value_str = <<>> THEN <<>>
    ELSE IF "," \in Range(value_str) THEN
        LET clean_value == remove_commas(value_str)
            float_val   == parse_float(clean_value)
        IN  IF ~float_val.ok THEN value_str
            ELSE IF is_integer(float_val) /\ abs_ge_1000(float_val)
                 THEN format_int_grouped(float_val)
            ELSE IF abs_ge_1000(float_val)
                 THEN format_float_grouped(float_val)
            ELSE clean_value
    ELSE value_str

(***************************************************************************)
(* format_rule_type                                                        *)
(***************************************************************************)
\* The styled label is text made of one marker token, or of the raw kind
\* wrapped in emphasis.
format_rule_type(rule_type) ==
    IF rule_type = <<"O", "P", "T">> THEN <<"(wrench) **OPTIMIZATION**">>
    ELSE IF rule_type = <<"W", "R", "N">> THEN <<"(warning sign) **WARNING**">>
    ELSE IF rule_type = <<"I", "N", "F">> THEN <<"(information sign) **INFO**">>
    ELSE <<"*", "*">> \o rule_type \o <<"*", "*">>

(***************************************************************************)
(* SECTION_MAPPINGS and get_sorted_sections                                *)
(***************************************************************************)
\* The dict in declaration order: <<raw label, canonical label>>.
SECTION_MAPPINGS ==
    << <<"GPU Speed Of Light Throughput", "Speed Of Light">>,
       <<"SpeedOfLight", "Speed Of Light">>,
       <<"SpeedOfLight_RooflineChart", "Speed Of Light">>,
       <<"Memory Workload Analysis", "Memory Workload">>,
       <<"MemoryWorkloadAnalysis", "Memory Workload">>,
       <<"MemoryWorkloadAnalysis_Chart", "Memory Workload">>,
       <<"MemoryWorkloadAnalysis_Tables", "Memory Workload">>,
       <<"Compute Workload Analysis", "Compute Workload">>,
       <<"ComputeWorkloadAnalysis", "Compute Workload">>,
       <<"GPU and Memory Workload Distribution", "Compute & Memory Distribution">>,
       <<"Scheduler Statistics", "Scheduler">>,
       <<"SchedulerStats", "Scheduler">>,
       <<"Warp State Statistics", "Warp State">>,
       <<"WarpStateStats", "Warp State">>,
       <<"Instruction Statistics", "Instruction">>,
       <<"Launch Statistics", "Launch">>,
       <<"PM Sampling", "PM Sampling">>,
       <<"Occupancy", "Occupancy">>,
       <<"Source Counters", "Branching">>,
       <<"SourceCounters", "Branching">> >>

\* SECTION_MAPPINGS.get(label, label)
mappings_get(label) ==
    IF \E i \in 1..Len(SECTION_MAPPINGS) : SECTION_MAPPINGS[i][1] = label
    THEN SECTION_MAPPINGS[CHOOSE i \in 1..Len(SECTION_MAPPINGS) :
                              SECTION_MAPPINGS[i][1] = label][2]
    ELSE label

\* list(dict.fromkeys(xs)): xs without its repeats, first occurrences kept.
RECURSIVE fromkeys(_)
fromkeys(xs) ==
    IF xs = <<>> THEN <<>>
    ELSE LET init == fromkeys(SubSeq(xs, 1, Len(xs) - 1))
             x    == xs[Len(xs)]
         IN  IF x \in Range(init) THEN init ELSE Append(init, x)

section_order ==
    fromkeys([i \in 1..Len(SECTION_MAPPINGS) |-> SECTION_MAPPINGS[i][2]])

\* Index of the entry of an ordered mapping (a sequence of records with a
\* `name` key) under key k, or 0.
IndexOf(entries, k) ==
    IF \E i \in 1..Len(entries) : entries[i].name = k
    THEN CHOOSE i \in 1..Len(entries) : entries[i].name = k
    ELSE 0

RECURSIVE remaining_sections(_, _)
\* The entries of `entries` whose name is not in `names`, order kept.
remaining_sections(entries, names) ==
    IF entries = <<>> THEN <<>>
    ELSE IF Head(entries).name \in names THEN remaining_sections(Tail(entries), names)
    ELSE <<Head(entries)>> \o remaining_sections(Tail(entries), names)

RECURSIVE known_first(_, _)
\* The first loop: the entries named in `order`, in that order.
known_first(order, sections) ==
    IF order = <<>> THEN <<>>
    ELSE LET i == IndexOf(sections, Head(order))
         IN  (IF i > 0 THEN <<sections[i]>> ELSE <<>>)
             \o known_first(Tail(order), sections)

get_sorted_sections_unsorted(sections) == sections

get_sorted_sections(sections) ==
    known_first(section_order, sections)
    \o remaining_sections(sections, Range(section_order))

(***************************************************************************)
(* Rows: what csv.DictReader yields                                        *)
(***************************************************************************)
\* The columns the code reads.
Fields ==
    {"Kernel Name", "Section Name", "Metric Name", "Metric Unit", "Metric Value",
     "Rule Name", "Rule Type", "Rule Description", "Estimated Speedup Type",
     "Estimated Speedup"}

\* Python's None, DictReader's value for a column a short row does not reach:
\* a value distinct from every text (NoneLabel for the section column).
None == <<"<None>">>
NoneLabel == "<None>"
NoneOf(f) == IF f = "Section Name" THEN NoneLabel ELSE None

\* row[f] raises KeyError (the header has no column f) or yields None.
KeyError(row, f) == f \notin DOMAIN row
IsNone(row, f) == f \in DOMAIN row /\ row[f] = NoneOf(f)
Lacks(row, f) == KeyError(row, f) \/ IsNone(row, f)

(***************************************************************************)
(* parse_ncu_csv_data                                                      *)
(***************************************************************************)
\* kernels[kernel_name] on the defaultdict: a missing key is inserted last.
touch_kernel_prepend(ks, k) ==
    IF IndexOf(ks, k) > 0 THEN ks
    ELSE <<[name |-> k, sections |-> <<>>]>> \o ks

touch_kernel(ks, k) ==
    IF IndexOf(ks, k) > 0 THEN ks
    ELSE Append(ks, [name |-> k, sections |-> <<>>])

\* sections[section_name] on the inner defaultdict.
touch_section(secs, s) ==
    IF IndexOf(secs, s) > 0 THEN secs
    ELSE Append(secs, [name |-> s, Metrics |-> <<>>, Rules |-> <<>>])

\* Index of the metric called `name` in the ordered Metrics dict, or 0.
metric_index(metrics, name) ==
    IF \E i \in 1..Len(metrics) : metrics[i].Name = name
    THEN CHOOSE i \in 1..Len(metrics) : metrics[i].Name = name
    ELSE 0

\* Metrics[metric_name] = metric: a present key keeps its place.
upsert_metric_move_to_end(metrics, metric) ==
    Append(SelectSeq(metrics, LAMBDA m : m.Name # metric.Name), metric)

upsert_metric(metrics, metric) ==
    LET i == metric_index(metrics, metric.Name)
    IN  IF i > 0 THEN [metrics EXCEPT ![i] = metric] ELSE Append(metrics, metric)

\* Rules.append(rule)
append_rule_prepend(rules, rule) == <<rule>> \o rules

append_rule(rules, rule) == Append(rules, rule)

\* kernels[kernel_name][section_name], both levels created on access:
\* the model after the access, and where the section then is.
touch(ks, k, s) ==
    LET ks1  == touch_kernel(ks, k)
        ki   == IndexOf(ks1, k)
        secs == touch_section(ks1[ki].sections, s)
    IN  [kernels |-> [ks1 EXCEPT ![ki].sections = secs],
         ki      |-> ki,
         si      |-> IndexOf(secs, s)]

\* kernels[kernel_name][section_name]["Metrics"][metric_name] = metric
store_metric(ks, k, s, metric) ==
    LET t == touch(ks, k, s)
    IN  [t.kernels EXCEPT ![t.ki].sections[t.si].Metrics = upsert_metric(@, metric)]

\* kernels[kernel_name][section_name]["Rules"].append(rule)
store_rule(ks, k, s, rule) ==
    LET t == touch(ks, k, s)
    IN  [t.kernels EXCEPT ![t.ki].sections[t.si].Rules = append_rule(@, rule)]

\* The loop body (lines 136-163) on one row.  The result is the model after
\* the row and whether the body raised (KeyError on an absent column,
\* TypeError or AttributeError on None).
metric_part(ks, row, k, s) ==
    IF Lacks(row, "Metric Name") THEN [raised |-> TRUE, kernels |-> ks]
    ELSE IF strip(row["Metric Name"]) = <<>> THEN [raised |-> FALSE, kernels |-> ks]
    ELSE IF Lacks(row, "Metric Unit") \/ Lacks(row, "Metric Value")
         THEN [raised |-> TRUE, kernels |-> ks]
    ELSE LET metric == [Name  |-> strip(row["Metric Name"]),
                        Unit  |-> strip(row["Metric Unit"]),
                        Value |-> format_numeric_value(strip(row["Metric Value"]))]
         IN  [raised  |-> FALSE,
              kernels |-> store_metric(ks, k, s, metric)]

rule_part(ks, row, k, s) ==
    IF Lacks(row, "Rule Name") THEN [raised |-> TRUE, kernels |-> ks]
    ELSE IF strip(row["Rule Name"]) = <<>> THEN [raised |-> FALSE, kernels |-> ks]
    ELSE IF \/ Lacks(row, "Rule Type") \/ Lacks(row, "Rule Description")
            \/ Lacks(row, "Estimated Speedup Type") \/ Lacks(row, "Estimated Speedup")
         THEN [raised |-> TRUE, kernels |-> ks]
    ELSE LET rule == [Name         |-> strip(row["Rule Name"]),
                      Type         |-> strip(row["Rule Type"]),
                      Description  |-> strip(row["Rule Description"]),
                      Speedup_type |-> strip(row["Estimated Speedup Type"]),
                      Speedup      |-> strip(row["Estimated Speedup"])]
         IN  [raised  |-> FALSE,
              kernels |-> store_rule(ks, k, s, rule)]

\* `if not section_name`: the empty label and None are both falsy.
falsy_label(section_name) == section_name = "" \/ section_name = NoneLabel

process_row_no_skip(ks, row) ==
    IF Lacks(row, "Kernel Name") \/ KeyError(row, "Section Name")
    THEN [raised |-> TRUE, kernels |-> ks]
    ELSE LET kernel_name  == extract_kernel_name(row["Kernel Name"])
             section_name == mappings_get(row["Section Name"])
             m == metric_part(ks, row, kernel_name, section_name)
         IN  IF m.raised THEN m
             ELSE rule_part(m.kernels, row, kernel_name, section_name)

process_row_eager_fields(ks, row) ==
    IF \E f \in Fields : Lacks(row, f)
    THEN [raised |-> TRUE, kernels |-> ks]
    ELSE process_row_no_skip(ks, row)

process_row(ks, row) ==
    IF Lacks(row, "Kernel Name") \/ KeyError(row, "Section Name")
    THEN [raised |-> TRUE, kernels |-> ks]
    ELSE LET kernel_name  == extract_kernel_name(row["Kernel Name"])
             section_name == mappings_get(row["Section Name"])
         IN  IF falsy_label(section_name) THEN [raised |-> FALSE, kernels |-> ks]
             ELSE LET m == metric_part(ks, row, kernel_name, section_name)
                  IN  IF m.raised THEN m
                      ELSE rule_part(m.kernels, row, kernel_name, section_name)

(***************************************************************************)
(* add_per_section_markdown and convert_ncu_csv_to_flat_markdown           *)
(***************************************************************************)
\* A document is the sequence of its lines (what splitting the returned text
\* at "\n" gives).  A line is its kind and the values formatted into it.
Line(t, parts) == [t |-> t, parts |-> parts]
Blank == Line("blank", <<>>)

truthy(text) == text # <<>>

RECURSIVE rule_lines(_)
\* Lines 200-212.
rule_lines(rules) ==
    IF rules = <<>> THEN <<>>
    ELSE LET rule == Head(rules)
             prefix == format_rule_type(rule.Type)
         IN  <<Line("rule", <<prefix, rule.Description>>)>>
             \o (IF truthy(rule.Speedup) /\ truthy(rule.Speedup_type)
                 THEN <<Line("speedup", <<rule.Speedup_type, rule.Speedup>>)>>
                 ELSE <<>>)
             \o <<Blank>>
             \o rule_lines(Tail(rules))

\* Lines 190-197.
metric_lines(metrics) ==
    IF metrics # <<>>
    THEN <<Line("table_header", <<>>), Line("table_rule", <<>>)>>
         \o [i \in 1..Len(metrics) |->
                Line("table_row", <<metrics[i].Name,
                                    IF truthy(metrics[i].Unit) THEN metrics[i].Unit ELSE <<>>,
                                    IF truthy(metrics[i].Value) THEN metrics[i].Value ELSE <<>> >>)]
         \o <<Blank>>
    ELSE <<>>

\* "\n".join(markdown_lines) of one section; the heading f"## {name}\n"
\* carries its own line break, hence the blank line after it.
section_markdown(section_name, data) ==
    <<Line("h2", <<section_name>>), Blank>>
    \o metric_lines(data.Metrics)
    \o rule_lines(data.Rules)

add_per_section_markdown(ncu_data) ==
    [k \in 1..Len(ncu_data) |->
        [ncu_data[k] EXCEPT !.sections =
            [i \in 1..Len(@) |->
                [name     |-> @[i].name,
                 Metrics  |-> @[i].Metrics,
                 Rules    |-> @[i].Rules,
                 Markdown |-> section_markdown(@[i].name, @[i])]]]]

RECURSIVE concat_markdown(_)
concat_markdown(sorted) ==
    IF sorted = <<>> THEN <<>>
    ELSE Head(sorted).Markdown \o concat_markdown(Tail(sorted))

\* One iteration of the loop at line 232.
kernel_block(entry) ==
    <<Line("h1", <<entry.name>>), Blank>>
    \o (IF entry.sections = <<>>
        THEN <<Line("no_sections", <<entry.name>>)>>
        ELSE concat_markdown(get_sorted_sections(entry.sections))
             \o <<Line("hr", <<>>), Blank>>)

RECURSIVE flat_markdown(_)
\* Lines 230-246 on the model with its Markdown attached.
flat_markdown(nested_markdown) ==
    IF nested_markdown = <<>> THEN <<>>
    ELSE kernel_block(Head(nested_markdown))
         \o flat_markdown(Tail(nested_markdown))

(***************************************************************************)
(* Inputs                                                                  *)
(***************************************************************************)
Row(k, s, metric, rule) ==
    [f \in Fields |->
        CASE f = "Kernel Name"            -> k
          [] f = "Section Name"           -> s
          [] f = "Metric Name"            -> metric[1]
          [] f = "Metric Unit"            -> metric[2]
          [] f = "Metric Value"           -> metric[3]
          [] f = "Rule Name"              -> rule[1]
          [] f = "Rule Type"              -> rule[2]
          [] f = "Rule Description"       -> rule[3]
          [] f = "Estimated Speedup Type" -> rule[4]
          [] f = "Estimated Speedup"      -> rule[5]]

NoMetric == << <<>>, <<>>, <<>> >>
NoRule   == << <<>>, <<>>, <<>>, <<>>, <<>> >>

\* Duration / ns / 1,500; the same name untrimmed with another value; a second metric.
MetricM  == << <<"m">>, <<"n", "s">>, <<"1", ",", "5", "0", "0">> >>
MetricM2 == << <<" ", "m">>, <<>>, <<"2">> >>
MetricN  == << <<"n">>, <<"%">>, <<"7", " ">> >>

\* An OPT rule with both speedup fields, a rule of an unknown kind with neither.
RuleR == << <<"r">>, <<"O", "P", "T">>, <<"d">>, <<"g">>, <<"9">> >>
RuleQ == << <<"q", " ">>, <<"X">>, <<" ", "e">>, <<>>, <<>> >>

KernelA  == <<"A">>
KernelA2 == <<"A", " ", "(", "x">>
KernelB  == <<"B">>

\* The families of rows a conversion is fed; `lacks` is the column the
\* header does not have ("nocol") or short rows do not reach ("short").
Feeds ==
    {[family |-> fam, lacks |-> ""] : fam \in {"sections", "kernels", "metrics"}}
    \cup {[family |-> fam, lacks |-> f] : fam \in {"short", "nocol"}, f \in Fields}

BaseRows ==
    {Row(KernelA, s, p[1], p[2]) :
        s \in {"", "SpeedOfLight"},
        p \in {<<NoMetric, NoRule>>, <<MetricM, RuleR>>}}

RowsOf(fd) ==
    CASE fd.family = "sections" ->
            {Row(KernelA, s, m, NoRule) :
                s \in {"", "SpeedOfLight", "GPU Speed Of Light Throughput",
                       "Occupancy", "Memory Workload", "Zeta", "Alpha"},
                m \in {NoMetric, MetricM}}
      [] fd.family = "kernels" ->
            {Row(k, p[1], p[2], p[3]) :
                k \in {KernelA, KernelA2, KernelB},
                p \in {<<"SpeedOfLight", NoMetric, NoRule>>,
                       <<"SpeedOfLight", MetricM, NoRule>>,
                       <<"SpeedOfLight", NoMetric, RuleR>>,
                       <<"", MetricM, RuleR>>}}
      [] fd.family = "metrics" ->
            {Row(KernelA, s, p[1], p[2]) :
                s \in {"SpeedOfLight", "Zeta"},
                p \in {<<MetricM, NoRule>>, <<MetricM2, NoRule>>, <<MetricN, NoRule>>,
                       <<NoMetric, RuleR>>, <<NoMetric, RuleQ>>, <<MetricN, RuleR>>}}
      [] fd.family = "short" ->
            BaseRows \cup {[r EXCEPT ![fd.lacks] = NoneOf(fd.lacks)] : r \in BaseRows}
      [] fd.family = "nocol" ->
            {[f \in Fields \ {fd.lacks} |-> r[f]] : r \in BaseRows}

(***************************************************************************)
(* The conversion, row by row                                              *)
(***************************************************************************)
Init ==
    /\ feed \in Feeds
    /\ rows = <<>>
    /\ kernels = <<>>
    /\ pc = "parsing"
    /\ out = <<>>
    /\ arg = <<>>
    /\ ret = <<>>

\* The reader yields a row and the loop body of parse_ncu_csv_data runs on it;
\* an exception leaves convert_ncu_csv_to_flat_markdown without a return value.
ParseRow ==
    /\ pc = "parsing"
    /\ Len(rows) < MaxRows
    /\ \E row \in RowsOf(feed) :
          LET r == process_row(kernels, row)
          IN  /\ rows' = Append(rows, row)
              /\ kernels' = r.kernels
              /\ pc' = IF r.raised THEN "failed" ELSE "parsing"
    /\ UNCHANGED <<feed, out, arg, ret>>

\* The reader is exhausted: parse_ncu_csv_data returns, the Markdown of every
\* section is attached and the flat document is returned.
Finish ==
    /\ pc = "parsing"
    /\ kernels' = add_per_section_markdown(kernels)
    /\ out' = flat_markdown(kernels')
    /\ pc' = "done"
    /\ UNCHANGED <<feed, rows, arg, ret>>

Next == ParseRow \/ Finish

Spec == Init /\ [][Next]_vars

(***************************************************************************)
(* extract_kernel_name and format_numeric_value on their own               *)
(***************************************************************************)
NameAlphabet == {"k", " ", "[", "("}
ValueAlphabet == {"0", "1", ",", ".", "-"}

InitExtract ==
    /\ arg \in SeqsUpTo(NameAlphabet, MaxNameLen)
    /\ ret = <<>>
    /\ pc = "call"
    /\ feed = [family |-> "none", lacks |-> ""]
    /\ rows = <<>> /\ kernels = <<>> /\ out = <<>>

CallExtract ==
    /\ pc = "call"
    /\ ret' = extract_kernel_name(arg)
    /\ pc' = "returned"
    /\ UNCHANGED <<feed, rows, kernels, out, arg>>

SpecExtract == InitExtract /\ [][CallExtract]_vars

InitFormat ==
    /\ arg \in SeqsUpTo(ValueAlphabet, MaxValueLen)
    /\ ret = <<>>
    /\ pc = "call"
    /\ feed = [family |-> "none", lacks |-> ""]
    /\ rows = <<>> /\ kernels = <<>> /\ out = <<>>

CallFormat ==
    /\ pc = "call"
    /\ ret' = format_numeric_value(arg)
    /\ pc' = "returned"
    /\ UNCHANGED <<feed, rows, kernels, out, arg>>

SpecFormat == InitFormat /\ [][CallFormat]_vars

(***************************************************************************)
(* Vocabulary of the properties                                            *)
(***************************************************************************)
Min(S) == CHOOSE x \in S : \A y \in S : x <= y
Max(S) == CHOOSE x \in S : \A y \in S : x >= y

\* What a row says, for rows the loop body got past without raising.
RowKernel(r) == extract_kernel_name(r["Kernel Name"])
RowSection(r) == mappings_get(r["Section Name"])
HasMetric(r) == ~Lacks(r, "Metric Name") /\ strip(r["Metric Name"]) # <<>>
HasRule(r) == ~Lacks(r, "Rule Name") /\ strip(r["Rule Name"]) # <<>>
Names(r, k) == ~Lacks(r, "Kernel Name") /\ RowKernel(r) = k
Dropped(r) == ~KeyError(r, "Section Name") /\ falsy_label(RowSection(r))
Retained(r) == ~KeyError(r, "Section Name") /\ ~falsy_label(RowSection(r))
Contributes(r) == Retained(r) /\ (HasMetric(r) \/ HasRule(r))

\* The rows of the input that name kernel k (and section s).
RowsNaming(k) == {i \in 1..Len(rows) : Names(rows[i], k)}
RowsOfSection(k, s) ==
    {i \in 1..Len(rows) :
        Names(rows[i], k) /\ Retained(rows[i]) /\ RowSection(rows[i]) = s}
KernelsNamed == {RowKernel(rows[i]) : i \in {j \in 1..Len(rows) : ~Lacks(rows[j], "Kernel Name")}}

\* The document: headings and what lies under them.
Positions(kind) == {i \in 1..Len(out) : out[i].t = kind}
RECURSIVE NextOf(_, _)
\* The first line after line i whose kind is in `kinds`, or one past the end.
NextOf(i, kinds) ==
    IF i + 1 > Len(out) THEN Len(out) + 1
    ELSE IF out[i + 1].t \in kinds THEN i + 1
    ELSE NextOf(i + 1, kinds)
HeadingOf(k) == {i \in Positions("h1") : out[i].parts[1] = k}
BlockOf(i) == (i + 1)..(NextOf(i, {"h1"}) - 1)
SectionHeadings(i) == {j \in BlockOf(i) : out[j].t = "h2"}
\* The labels of the second-level headings under the heading at line i, in order.
SectionsUnder(i) ==
    LET body == SubSeq(out, i + 1, NextOf(i, {"h1"}) - 1)
        h2s  == SelectSeq(body, LAMBDA l : l.t = "h2")
    IN  [n \in 1..Len(h2s) |-> h2s[n].parts[1]]
\* The lines of kind `kind` under the section heading at line j, in order.
LinesUnder(j, kind) ==
    SelectSeq(SubSeq(out, j + 1, NextOf(j, {"h1", "h2", "hr"}) - 1),
              LAMBDA l : l.t = kind)
SectionHeadingOf(k, s) ==
    UNION {{j \in BlockOf(i) : out[j].t = "h2" /\ out[j].parts[1] = s} :
              i \in HeadingOf(k)}

Canonical(s) == s \in Range(section_order)
OrderIndex(s) == CHOOSE n \in 1..Len(section_order) : section_order[n] = s
NoRepeats(seq) == \A a, b \in 1..Len(seq) : a # b => seq[a] # seq[b]

(***************************************************************************)
(* C1: the two-tier order of a kernel's sections                           *)
(***************************************************************************)
\* Section a stands before section b in the two-tier order, `first` giving
\* the row at which a non-canonical section counts as first encountered.
TwoTierBefore(a, b, first(_)) ==
    \/ Canonical(a) /\ Canonical(b) /\ OrderIndex(a) < OrderIndex(b)
    \/ Canonical(a) /\ ~Canonical(b)
    \/ ~Canonical(a) /\ ~Canonical(b) /\ first(a) < first(b)

TwoTierOrdered(i, first(_)) ==
    LET hs == SectionsUnder(i)
    IN  /\ NoRepeats(hs)
        /\ \A a, b \in 1..Len(hs) : a < b => TwoTierBefore(hs[a], hs[b], first)

\* C1 as claimed: in the returned document every kernel's sections stand in
\* two tiers, the canonical ones in section_order's order and then the others
\* in the order their names were first encountered in the kernel's input rows.
C1_TwoTierByFirstRow ==
    pc = "done" =>
        \A i \in Positions("h1") :
            LET k == out[i].parts[1]
                first(s) == Min(RowsOfSection(k, s))
            IN  TwoTierOrdered(i, first)

\* C1 amended: the sections of a kernel are exactly those some row of the
\* kernel contributes a metric or a rule to; the canonical ones stand first,
\* in section_order's order whatever the order of the rows, and the others
\* follow in the order of their first row that carries a metric or a rule.
C1_TwoTierByFirstContribution ==
    pc = "done" =>
        \A i \in Positions("h1") :
            LET k == out[i].parts[1]
                contributing(s) == {n \in RowsOfSection(k, s) : Contributes(rows[n])}
                first(s) == Min(contributing(s))
            IN  /\ Range(SectionsUnder(i)) =
                      {RowSection(rows[n]) :
                          n \in {m \in RowsNaming(k) : Contributes(rows[m])}}
                /\ TwoTierOrdered(i, first)

\* A kernel rendered with three sections, canonical and not, whose row order
\* is not the rendered order.
C1_Witness ==
    /\ pc = "done"
    /\ Len(rows) = 3
    /\ \E i \in Positions("h1") :
          LET hs == SectionsUnder(i)
          IN  /\ Len(hs) = 3
              /\ Canonical(hs[1]) /\ Canonical(hs[2]) /\ ~Canonical(hs[3])
              /\ RowSection(rows[1]) = hs[3]
              /\ RowSection(rows[2]) = hs[2]

(***************************************************************************)
(* C9: kernels appear in discovery order                                   *)
(***************************************************************************)
KernelsInOrder(first(_)) ==
    \A i, j \in Positions("h1") :
        i # j => (i < j <=> first(out[i].parts[1]) < first(out[j].parts[1]))

LastTextLine == Max({i \in 1..Len(out) : out[i].t # "blank"})

\* C2 as claimed: with n >= 1 kernels rendered, the document does not end
\* with a separator, and holds n-1 separators when every kernel has sections.
C2_SeparatorsBetweenKernels ==
    (pc = "done" /\ Positions("h1") # {}) =>
        /\ out[LastTextLine].t # "hr"
        /\ (Positions("no_sections") = {} =>
               Cardinality(Positions("hr")) = Cardinality(Positions("h1")) - 1)

(***************************************************************************)
(* C3: a kernel whose rows all have an empty section                       *)
(***************************************************************************)
\* C3 as claimed: a kernel whose every row has an empty canonical section is
\* still rendered, as its heading followed by the placeholder line.
C3_EmptyKernelRendered ==
    pc = "done" =>
        \A k \in KernelsNamed :
            (\A n \in RowsNaming(k) : Dropped(rows[n])) =>
                \E i \in HeadingOf(k) :
                    \E j \in BlockOf(i) :
                        /\ out[j].t = "no_sections" /\ out[j].parts[1] = k
                        /\ \A m \in BlockOf(i) : out[m].t # "hr"

(***************************************************************************)
(* C5: a row that lacks a field                                            *)
(***************************************************************************)
\* C5 as claimed: a conversion that returns a document has read no row
\* lacking any of the ten fields, and a failed one has returned no document.
C5_AnyLackingFieldFails ==
    /\ pc = "done" => \A n \in 1..Len(rows) : \A f \in Fields : ~Lacks(rows[n], f)
    /\ pc = "failed" => out = <<>>

\* The fields the loop body reads of a row, by what the row holds: the
\* kernel name and the section column always; the metric name and the rule
\* name when the canonical section is non-empty; the metric unit and value
\* when the metric name is non-empty; the other rule fields when the rule
\* name is non-empty.
LacksWhatIsRead(r) ==
    \/ Lacks(r, "Kernel Name")
    \/ KeyError(r, "Section Name")
    \/ /\ Retained(r)
       /\ \/ Lacks(r, "Metric Name")
          \/ HasMetric(r) /\ \E f \in {"Metric Unit", "Metric Value"} : Lacks(r, f)
          \/ Lacks(r, "Rule Name")
          \/ HasRule(r) /\ \E f \in {"Rule Type", "Rule Description",
                                     "Estimated Speedup Type", "Estimated Speedup"} :
                               Lacks(r, f)

\* C5 amended: the conversion fails, at that row and returning no document,
\* exactly when a row lacks a field the loop body reads of it (see
\* LacksWhatIsRead); a row lacking a field that is not read of it, such as
\* any metric or rule field of a row whose section is empty, does not fail
\* the conversion.  A conversion yields a document or a failure, never both.
C5_LackingReadFieldFails ==
    /\ \A n \in 1..Len(rows) :
          LacksWhatIsRead(rows[n]) <=> (pc = "failed" /\ n = Len(rows))
    /\ pc = "failed" => out = <<>> /\ ~ENABLED Next
    /\ pc = "done" => \A n \in 1..Len(rows) : ~LacksWhatIsRead(rows[n])

\* A conversion fails at its third row, after rows that built part of the model.
C5_Witness ==
    /\ pc = "failed"
    /\ Len(rows) = 3
    /\ kernels # <<>>
    /\ \E f \in Fields : Lacks(rows[3], f)

(***************************************************************************)
(* C7: a row with an empty canonical section is dropped                    *)
(***************************************************************************)
\* C7: when the loop body runs on a row whose canonical section name is
\* empty, the aggregated model after the row equals the model before it,
\* whatever metric and rule the row carries.
C7_EmptySectionRowDropped ==
    [][(rows' # rows /\ Dropped(rows'[Len(rows')])) => kernels' = kernels]_vars

\* A row with an empty section, a metric name and a rule name has been
\* processed after a row that was retained.
C7_Witness ==
    /\ pc = "parsing"
    /\ Len(rows) >= 2
    /\ kernels # <<>>
    /\ LET r == rows[Len(rows)]
       IN  Dropped(r) /\ HasMetric(r) /\ HasRule(r)

(***************************************************************************)
(* C6: metrics are unique by name, last row wins, first-seen order         *)
(***************************************************************************)
\* The rows that carry metric `name` for kernel k and section s.
RowsOfMetric(k, s, name) ==
    {n \in 1..Len(rows) :
        /\ Names(rows[n], k) /\ Retained(rows[n]) /\ RowSection(rows[n]) = s
        /\ HasMetric(rows[n]) /\ strip(rows[n]["Metric Name"]) = name}

MetricsAsRecorded(k, sec) ==
    LET ms == sec.Metrics
    IN  /\ \A a, b \in 1..Len(ms) : a # b => ms[a].Name # ms[b].Name
        /\ {ms[a].Name : a \in 1..Len(ms)} =
               {strip(rows[n]["Metric Name"]) :
                   n \in {m \in RowsOfSection(k, sec.name) : HasMetric(rows[m])}}
        /\ \A a \in 1..Len(ms) :
              LET last == rows[Max(RowsOfMetric(k, sec.name, ms[a].Name))]
              IN  /\ ms[a].Unit = strip(last["Metric Unit"])
                  /\ ms[a].Value = format_numeric_value(strip(last["Metric Value"]))
        /\ \A a, b \in 1..Len(ms) :
              a < b => Min(RowsOfMetric(k, sec.name, ms[a].Name))
                       < Min(RowsOfMetric(k, sec.name, ms[b].Name))

MetricsAsRendered(k, sec) ==
    \A j \in SectionHeadingOf(k, sec.name) :
        LET trs == LinesUnder(j, "table_row")
        IN  /\ Len(trs) = Len(sec.Metrics)
            /\ \A a \in 1..Len(trs) :
                  trs[a].parts = <<sec.Metrics[a].Name, sec.Metrics[a].Unit,
                                   sec.Metrics[a].Value>>

\* C6: after any sequence of rows each (kernel, section) pair holds one
\* metric per trimmed metric name, with the unit and value of the last row
\* that carried the name, in the order the names were first seen; the
\* returned document has one table row per metric in that order.
C6_MetricsLastWinsFirstSeenOrder ==
    pc # "failed" =>
        \A x \in 1..Len(kernels) : \A y \in 1..Len(kernels[x].sections) :
            /\ MetricsAsRecorded(kernels[x].name, kernels[x].sections[y])
            /\ pc = "done" =>
                  /\ SectionHeadingOf(kernels[x].name, kernels[x].sections[y].name) # {}
                  /\ MetricsAsRendered(kernels[x].name, kernels[x].sections[y])

\* A metric was overwritten by the third row, after a second metric was
\* added, and is still rendered first, with the third row's value.
C6_Witness ==
    /\ pc = "done"
    /\ Len(rows) = 3
    /\ \E j \in Positions("h2") :
          LET trs == LinesUnder(j, "table_row")
          IN  /\ Len(trs) = 2
              /\ trs[1].parts[1] = strip(rows[3]["Metric Name"])
              /\ trs[1].parts[3] = strip(rows[3]["Metric Value"])
              /\ rows[1]["Metric Value"] # rows[3]["Metric Value"]
              /\ trs[2].parts[1] = strip(rows[2]["Metric Name"])

(***************************************************************************)
(* C10: rules are kept in input order                                      *)
(***************************************************************************)
RuleOf(r) ==
    [Name         |-> strip(r["Rule Name"]),
     Type         |-> strip(r["Rule Type"]),
     Description  |-> strip(r["Rule Description"]),
     Speedup_type |-> strip(r["Estimated Speedup Type"]),
     Speedup      |-> strip(r["Estimated Speedup"])]

RECURSIVE RulesOfRows(_, _, _)
\* The rules of the first n rows for kernel k and section s, in input order.
RulesOfRows(n, k, s) ==
    IF n = 0 THEN <<>>
    ELSE RulesOfRows(n - 1, k, s)
         \o (IF /\ Names(rows[n], k) /\ Retained(rows[n])
                /\ RowSection(rows[n]) = s /\ HasRule(rows[n])
             THEN <<RuleOf(rows[n])>> ELSE <<>>)

RulesAsRendered(k, sec) ==
    \A j \in SectionHeadingOf(k, sec.name) :
        LET rls == LinesUnder(j, "rule")
        IN  /\ Len(rls) = Len(sec.Rules)
            /\ \A a \in 1..Len(rls) :
                  rls[a].parts = <<format_rule_type(sec.Rules[a].Type),
                                   sec.Rules[a].Description>>

\* C10: the rule sequence of every (kernel, section) pair is, at every point
\* of the aggregation, the retained rows of that pair with a non-empty
\* trimmed rule name, in input order and with duplicates; the returned
\* document has one rule line per rule in that order.
C10_RulesInInputOrder ==
    pc # "failed" =>
        /\ \A x \in 1..Len(kernels) : \A y \in 1..Len(kernels[x].sections) :
              LET k == kernels[x].name
                  sec == kernels[x].sections[y]
              IN  /\ sec.Rules = RulesOfRows(Len(rows), k, sec.name)
                  /\ pc = "done" => RulesAsRendered(k, sec)
        /\ \A n \in 1..Len(rows) :
              (Retained(rows[n]) /\ HasRule(rows[n])) =>
                  \E x \in 1..Len(kernels) :
                      /\ kernels[x].name = RowKernel(rows[n])
                      /\ IndexOf(kernels[x].sections, RowSection(rows[n])) > 0

\* A section is rendered with three rule lines, two of them from the same
\* rule given twice, around a metric upsert or another rule.
C10_Witness ==
    /\ pc = "done"
    /\ Len(rows) = 3
    /\ \E j \in Positions("h2") :
          LET rls == LinesUnder(j, "rule")
          IN  /\ Len(rls) = 3
              /\ rls[1].parts = rls[2].parts
              /\ rls[2].parts # rls[3].parts

(***************************************************************************)
(* C4: the base name is the text before the first bracket                  *)
(***************************************************************************)
HasBracket(name) == \E i \in 1..Len(name) : name[i] \in Brackets
FirstBracket(name) == Min({i \in 1..Len(name) : name[i] \in Brackets})

\* C4 as claimed: for a name holding "[" or "(" at any position, the first
\* included, extract_kernel_name returns the trimmed text strictly before
\* the first of them; for a name holding neither, the name unchanged.
C4_TextBeforeFirstBracket ==
    pc = "returned" =>
        ret = IF HasBracket(arg)
              THEN strip(SubSeq(arg, 1, FirstBracket(arg) - 1))
              ELSE arg

(***************************************************************************)
(* C8: the case table of format_numeric_value                              *)
(***************************************************************************)
Unsigned(t) == IF t # <<>> /\ Head(t) = "-" THEN Tail(t) ELSE t

\* Digits in groups of three from the right, a comma between the groups and
\* nowhere else, no leading zero.
WellGrouped(ds) ==
    /\ ds # <<>>
    /\ Len(ds) % 4 # 0
    /\ ds[1] # "0"
    /\ \A i \in 1..Len(ds) :
          IF (Len(ds) - i + 1) % 4 = 0 THEN ds[i] = "," ELSE ds[i] \in Digits

GroupedInteger(t, f) ==
    /\ (t # <<>> /\ Head(t) = "-") <=> f.neg
    /\ WellGrouped(Unsigned(t))
    /\ DigitsToNat(remove_commas(Unsigned(t))) = f.int

GroupedTwoDecimals(t, f) ==
    LET u == Unsigned(t)
        n == Len(u)
        hundredths == f.int * 100 + DigitsToNat(SubSeq(f.frac \o <<"0", "0">>, 1, 2))
    IN  /\ (t # <<>> /\ Head(t) = "-") <=> f.neg
        /\ n >= 4
        /\ u[n - 2] = "." /\ u[n - 1] \in Digits /\ u[n] \in Digits
        /\ WellGrouped(SubSeq(u, 1, n - 3))
        /\ DigitsToNat(remove_commas(SubSeq(u, 1, n - 3)) \o SubSeq(u, n - 1, n))
               \in {hundredths, hundredths + 1}

====
